---------------------------- MODULE Spec2Model ----------------------------
(***************************************************************************)
(* A model of javatools/manifest.py: the JAR manifest key-value writer     *)
(* (line folding), the section tokenizer, the ordered attribute sections,  *)
(* Manifest parse/store/clear, the digest pipeline of SignatureManifest    *)
(* and the manifest change classifier.                                     *)
(*                                                                         *)
(* A Python str is a sequence of one-character strings.  The characters    *)
(* that have no printable form are written "\n", "\r" and NUL.  An ordered *)
(* dictionary is a sequence of <<key, value>> pairs with distinct keys.    *)
(***************************************************************************)
EXTENDS Integers, Sequences, FiniteSets, TLC

VARIABLES
    \* ---- write_key_val called on its own (specification SpecKV)
    kvKey,      \* the key argument (None or a str)
    kvVal,      \* the val argument (None or a str)
    kvSep,      \* the linesep argument (None or a str)
    kvStream,   \* the contents of the stream
    kvState,    \* "ready", "written", or the exception raised
    kvBack,     \* the attributes loaded from the tokenized stream
    kvLoad      \* "none", "loaded", or the exception raised when loading

kvVars == <<kvKey, kvVal, kvSep, kvStream, kvState, kvBack, kvLoad>>

VARIABLES
    \* ---- Manifest.parse called on its own (specification SpecParse)
    tkCall,     \* the method called: "parse" on a str or "parse_file"
    tkLines,    \* the lines the input was made of
    tkSep,      \* the line terminator the input was made with
    tkPre,      \* the Manifest before the call
    tkPost,     \* the Manifest after the call
    tkExc,      \* "ready", "returned", or the exception raised
    tkLineNo    \* the line number the MalformedManifest message carries

tkVars == <<tkCall, tkLines, tkSep, tkPre, tkPost, tkExc, tkLineNo>>

VARIABLES
    \* ---- the life of one Manifest (specification Spec)
    mf,         \* the Manifest: [attrs, subs, linesep]
    osLinesep,  \* os.linesep of the platform
    phase,      \* "build", "stored", "parsed" or "digested"
    exc,        \* the exception the last call raised, "none" when it returned
    storeArg,   \* the linesep argument of the call of mf.store
    written,    \* what mf.store wrote
    pm,         \* a new Manifest after pm.parse(written)
    alg,        \* the java_algorithm argument of digest_manifest
    sf          \* a new SignatureManifest after sf.digest_manifest(mf, alg)

mfVars == <<mf, osLinesep, phase, exc, storeArg, written, pm, alg, sf>>

VARIABLES
    \* ---- the change classifier (specification SpecDiff)
    dLeft,      \* the left Manifest (ldata of the ManifestChange)
    dRight,     \* the right Manifest (rdata)
    dOpts,      \* the options object: the attributes it has, with their values
    dChanges,   \* the change records collect_impl yielded, in order
    dIgnored,   \* what is_ignored(options) returned for each record
    dState      \* "ready", "collected" or "judged"

dVars == <<dLeft, dRight, dOpts, dChanges, dIgnored, dState>>

vars == <<kvVars, tkVars, mfVars, dVars>>

-----------------------------------------------------------------------------
(* Python values and strings *)

\* Python's None; no str is equal to it (a str holds one-character elements)
None == <<"None">>

NUL == "NUL"
LF == <<"\n">>
CR == <<"\r">>
CRLF == <<"\r", "\n">>
COLON == ":"
SPACE == " "

\* c repeated n times
Rep(c, n) == [i \in 1..n |-> c]

\* Python's "x or y" on str-or-None values: x unless it is None or empty
Or(x, y) == IF x = None \/ x = <<>> THEN y ELSE x

\* max(S) and min(S) of a non-empty set of numbers
Max(S) == CHOOSE x \in S : \A y \in S : y <= x
Min(S) == CHOOSE x \in S : \A y \in S : x <= y

\* s[n:] and s[:n]
Drop(s, n) == IF n >= Len(s) THEN <<>> ELSE SubSeq(s, n + 1, Len(s))
Take(s, n) == IF n >= Len(s) THEN s ELSE SubSeq(s, 1, n)

-----------------------------------------------------------------------------
(* write_key_val *)

\* the key length test: 0 < len(key) < KeyLenLimit
KeyLenLimit == 69
\* fold when len(key) + len(val) exceeds this
FoldThreshold == 68
\* the first read of the folded buffer
FirstChunk == 70
\* every following read of the folded buffer
ContChunk == 69

\* the loop reading FirstChunk characters every time
RECURSIVE WritePartsMutant(_, _, _)
WritePartsMutant(stream, rest, linesep) ==
    IF rest = <<>> THEN [stream |-> stream, err |-> "none"]
    ELSE IF linesep = None
         THEN [stream |-> stream, err |-> "TypeError"]
         ELSE WritePartsMutant(stream \o linesep \o <<SPACE>> \o Take(rest, FirstChunk),
                               Drop(rest, FirstChunk), linesep)

\* the loop "part = kvbuffer.read(69); while part: write(linesep + ' '); write(part)"
RECURSIVE WriteParts(_, _, _)
WriteParts(stream, rest, linesep) ==
    IF rest = <<>> THEN [stream |-> stream, err |-> "none"]
    ELSE IF linesep = None
         THEN [stream |-> stream, err |-> "TypeError"]
         ELSE WriteParts(stream \o linesep \o <<SPACE>> \o Take(rest, ContChunk),
                         Drop(rest, ContChunk), linesep)

KeyLengthOkMutant(key) == Len(key) < KeyLenLimit

\* "0 < len(key) < 69"
KeyLengthOk(key) == 0 < Len(key) /\ Len(key) < KeyLenLimit

NeedsFoldMutant(key, val) == Len(key) + Len(val) > FoldThreshold + 2

\* "len(key) + len(val) > 68"
NeedsFold(key, val) == Len(key) + Len(val) > FoldThreshold

\* write_key_val(stream, key, val, linesep): the stream afterwards and the
\* exception raised, if any ("none" when it returns)
WriteKeyVal(stream, key0, val0, linesep) ==
    LET key == Or(key0, <<>>)
        val == Or(val0, <<>>)
    IN  IF ~KeyLengthOk(key)
        THEN [stream |-> stream, err |-> "ManifestKeyException"]
        ELSE LET body ==
                   IF NeedsFold(key, val)
                   THEN LET kvbuffer == key \o <<COLON, SPACE>> \o val
                        IN  WriteParts(stream \o Take(kvbuffer, FirstChunk),
                                       Drop(kvbuffer, FirstChunk), linesep)
                   ELSE [stream |-> stream \o key \o <<COLON, SPACE>> \o val,
                         err |-> "none"]
             IN  IF body.err # "none" THEN body
                 ELSE IF linesep = None
                      THEN [stream |-> body.stream, err |-> "TypeError"]
                      ELSE [stream |-> body.stream \o linesep, err |-> "none"]

-----------------------------------------------------------------------------
(* ManifestSection: an ordered dictionary of str keys and str values *)

\* the class attributes primary_key
NameKey == <<"N", "a", "m", "e">>
ManifestVersionKey ==
    <<"M", "a", "n", "i", "f", "e", "s", "t", "-", "V", "e", "r", "s", "i", "o", "n">>
SignatureVersionKey ==
    <<"S", "i", "g", "n", "a", "t", "u", "r", "e", "-", "V", "e", "r", "s", "i", "o", "n">>

\* str(v)
Str(v) == IF v = None THEN <<"N", "o", "n", "e">> ELSE v

\* the default of Manifest.__init__'s version
DefaultVersion == <<"1", ".", "0">>

\* the longest key ManifestSection.__setitem__ accepts
SetItemKeyMax == 68

HasKey(d, k) == \E i \in 1..Len(d) : d[i][1] = k

\* d.get(k)
Get(d, k) == IF HasKey(d, k) THEN d[CHOOSE i \in 1..Len(d) : d[i][1] = k][2] ELSE None

\* OrderedDict.__setitem__: a known key keeps its place, a new one goes last
DictSet(d, k, v) ==
    IF HasKey(d, k)
    THEN [i \in 1..Len(d) |-> IF d[i][1] = k THEN <<k, v>> ELSE d[i]]
    ELSE Append(d, <<k, v>>)

\* ManifestSection.__setitem__: the dictionary afterwards and the exception
SetItem(d, k, v) ==
    IF Len(Str(k)) > SetItemKeyMax
    THEN [attrs |-> d, err |-> "ManifestKeyException"]
    ELSE [attrs |-> DictSet(d, Str(k), Str(v)), err |-> "none"]

\* ManifestSection.__init__(name) for a class whose primary key is pk
NewSection(pk, name) == SetItem(<<>>, pk, name).attrs

\* ManifestSection.primary
Primary(d, pk) == Get(d, pk)

\* "".join(vals)
RECURSIVE Join(_)
Join(vals) == IF vals = <<>> THEN <<>> ELSE Head(vals) \o Join(Tail(vals))

\* ManifestSection.load: the items are set one after the other
RECURSIVE LoadItems(_, _)
LoadItems(d, items) ==
    IF items = <<>> THEN [attrs |-> d, err |-> "none"]
    ELSE LET r == SetItem(d, Head(items)[1], Join(Head(items)[2]))
         IN  IF r.err # "none" THEN r ELSE LoadItems(r.attrs, Tail(items))

\* ManifestSection.store: every item through write_key_val, then linesep
RECURSIVE StoreItems(_, _, _)
StoreItems(stream, d, linesep) ==
    IF d = <<>>
    THEN IF linesep = None
         THEN [stream |-> stream, err |-> "TypeError"]
         ELSE [stream |-> stream \o linesep, err |-> "none"]
    ELSE LET r == WriteKeyVal(stream, Head(d)[1], Head(d)[2], linesep)
         IN  IF r.err # "none" THEN r ELSE StoreItems(r.stream, Tail(d), linesep)

SectionStore(stream, d, linesep) == StoreItems(stream, d, linesep)

-----------------------------------------------------------------------------
(* Manifest: main attributes, ordered sub-sections, line separator *)

\* Manifest.__init__(version, linesep)
NewManifest(pk, version, linesep) ==
    [attrs |-> NewSection(pk, version), subs |-> <<>>, linesep |-> linesep]

\* Manifest.clear
ManifestClear(m) == [m EXCEPT !.attrs = <<>>, !.subs = <<>>]

\* Manifest.create_section
CreateSection(m, name, overwrite) ==
    IF overwrite \/ ~HasKey(m.subs, name)
    THEN [m EXCEPT !.subs = DictSet(m.subs, name, NewSection(NameKey, name))]
    ELSE m

-----------------------------------------------------------------------------
(* sorted(self.sub_sections.values()): Python 2 orders dictionaries by     *)
(* their length, then by the smallest key on which they differ, then by    *)
(* the values under that key; str is ordered by character code             *)

\* the characters of the model in the order of their codes
CharCodes ==
    <<NUL, "\n", "\r", " ", "-", ".", "0", "1", "2", "5", "6", ":",
      "A", "B", "D", "H", "M", "N", "S", "V",
      "a", "b", "c", "e", "f", "g", "i", "k", "m", "n", "o", "r", "s", "t",
      "u", "v", "x", "y", "z">>

Code(c) == CHOOSE i \in 1..Len(CharCodes) : CharCodes[i] = c

\* s < t for two str
RECURSIVE StrLess(_, _)
StrLess(s, t) ==
    IF t = <<>> THEN FALSE
    ELSE IF s = <<>> THEN TRUE
    ELSE IF Head(s) = Head(t) THEN StrLess(Tail(s), Tail(t))
    ELSE Code(Head(s)) < Code(Head(t))

\* the keys of a whose value differs in b or that b lacks
DiffKeys(a, b) ==
    {a[i][1] : i \in {j \in 1..Len(a) : Get(b, a[j][1]) # a[j][2]}}

\* the smallest str of a non-empty set of str
Smallest(S) == CHOOSE k \in S : \A l \in S : l = k \/ StrLess(k, l)

DictLessMutant(a, b) == StrLess(Get(a, NameKey), Get(b, NameKey))

\* a < b for two dictionaries of str
DictLess(a, b) ==
    IF Len(a) # Len(b) THEN Len(a) < Len(b)
    ELSE IF DiffKeys(a, b) = {} THEN FALSE
    ELSE LET adiff == Smallest(DiffKeys(a, b))
             bdiff == Smallest(DiffKeys(b, a))
         IN  IF adiff # bdiff THEN StrLess(adiff, bdiff)
             ELSE StrLess(Get(a, adiff), Get(b, bdiff))

\* x put into the sorted list l, after the elements that are not greater
RECURSIVE InsertSorted(_, _)
InsertSorted(l, x) ==
    IF l = <<>> THEN <<x>>
    ELSE IF DictLess(x, Head(l)) THEN <<x>> \o l
    ELSE <<Head(l)>> \o InsertSorted(Tail(l), x)

\* sorted(l): a stable sort
RECURSIVE Sorted(_)
Sorted(l) ==
    IF l = <<>> THEN <<>>
    ELSE InsertSorted(Sorted(SubSeq(l, 1, Len(l) - 1)), l[Len(l)])

\* d.values()
Values(d) == [i \in 1..Len(d) |-> d[i][2]]

-----------------------------------------------------------------------------
(* Manifest.store, Manifest.get_main_section *)

\* the sections of l stored one after the other
RECURSIVE StoreSections(_, _, _)
StoreSections(stream, l, linesep) ==
    IF l = <<>> THEN [stream |-> stream, err |-> "none"]
    ELSE LET r == SectionStore(stream, Head(l), linesep)
         IN  IF r.err # "none" THEN r ELSE StoreSections(r.stream, Tail(l), linesep)

StoreOrderMutant(m) == Values(m.subs)

\* the order in which Manifest.store writes the sub-sections
StoreOrder(m) == Sorted(Values(m.subs))

\* "linesep or self.linesep or os.linesep"
EffectiveSep(arg, m, os) == Or(Or(arg, m.linesep), os)

\* Manifest.store(stream, linesep)
ManifestStore(stream, m, arg, os) ==
    LET linesep == EffectiveSep(arg, m, os)
        r == SectionStore(stream, m.attrs, linesep)
    IN  IF r.err # "none" THEN r
        ELSE StoreSections(r.stream, StoreOrder(m), linesep)

\* Manifest.get_main_section: the main section, written with self.linesep
GetMainSection(m) == SectionStore(<<>>, m.attrs, m.linesep)

\* ManifestSection.get_data(linesep)
SectionGetData(d, linesep) == SectionStore(<<>>, d, linesep)

-----------------------------------------------------------------------------
(* SignatureManifest.digest_manifest *)

AlgSHA256 == <<"S", "H", "A", "-", "2", "5", "6">>
AlgMD5 == <<"M", "D", "5">>
AlgMD2 == <<"M", "D", "2">>

\* JAVA_TO_HASHLIB, as far as the model's algorithms go
KnownAlgs == {AlgSHA256, AlgMD5}
JavaToHashlib(a) == IF a = AlgSHA256 THEN "sha256" ELSE "md5"

DigestManifestSuffix == 
    <<"-", "D", "i", "g", "e", "s", "t", "-", "M", "a", "n", "i", "f", "e", "s", "t">>
DigestMainSuffix == 
    <<"-", "D", "i", "g", "e", "s", "t", "-", "M", "a", "n", "i", "f", "e", "s", "t", "-", "M", "a", "i", "n", "-", "A", "t", "t", "r", "i", "b", "u", "t", "e", "s">>
DigestSuffix == <<"-", "D", "i", "g", "e", "s", "t">>

\* a hash object is the name of its function and all the data it was fed
NewHash(a) == [fn |-> JavaToHashlib(a), fed |-> <<>>]
Update(h, data) == [h EXCEPT !.fed = h.fed \o data]

\* b64encode(h.digest()): one str for each function and each data fed
B64Digest(h) == <<"b64", h.fn>> \o h.fed

\* the loop over manifest.sub_sections.values()
RECURSIVE DigestSubs(_, _, _, _, _)
DigestSubs(s, hAll, subs, a, linesep) ==
    IF subs = <<>>
    THEN \* self[all_key] = b64encode(h_all.digest())
         LET r == SetItem(s.attrs, a \o DigestManifestSuffix, B64Digest(hAll))
         IN  [sf |-> [s EXCEPT !.attrs = r.attrs], err |-> r.err]
    ELSE LET sub == Head(subs)
             data == SectionGetData(sub, linesep)
         IN  IF data.err # "none" THEN [sf |-> s, err |-> data.err]
             ELSE LET hSection == Update(NewHash(a), data.stream)
                      name == Primary(sub, NameKey)
                      s1 == CreateSection(s, name, TRUE)
                      r == SetItem(Get(s1.subs, name), a \o DigestSuffix,
                                   B64Digest(hSection))
                      s2 == [s1 EXCEPT !.subs = DictSet(s1.subs, name, r.attrs)]
                  IN  IF r.err # "none" THEN [sf |-> s1, err |-> r.err]
                      ELSE DigestSubs(s2, Update(hAll, data.stream), Tail(subs),
                                      a, linesep)

SubsOrderMutant(m) == Sorted(Values(m.subs))

\* manifest.sub_sections.values()
SubsOrder(m) == Values(m.subs)

\* s.digest_manifest(m, a): the SignatureManifest afterwards and the exception
DigestManifest(s, m, a, os) ==
    LET linesep == Or(m.linesep, os)
        main == GetMainSection(m)
    IN  IF a \notin KnownAlgs THEN [sf |-> s, err |-> "KeyError"]
        ELSE IF main.err # "none" THEN [sf |-> s, err |-> main.err]
        ELSE LET hAll == Update(NewHash(a), main.stream)
                 r == SetItem(s.attrs, a \o DigestMainSuffix, B64Digest(hAll))
             IN  IF r.err # "none" THEN [sf |-> s, err |-> r.err]
                 ELSE DigestSubs([s EXCEPT !.attrs = r.attrs], hAll, SubsOrder(m),
                                 a, linesep)

-----------------------------------------------------------------------------
(* ManifestChange.collect_impl and the is_ignored methods *)

\* set(m.sub_sections.keys())
SectionNames(m) == {m.subs[i][1] : i \in 1..Len(m.subs)}

\* l_sections.intersection(r_sections)
ChangedNames(lm, rm) == SectionNames(lm) \cap SectionNames(rm)

RemovedNamesMutant(lm, rm) == SectionNames(lm)

\* l_sections.difference(r_sections)
RemovedNames(lm, rm) == SectionNames(lm) \ SectionNames(rm)

\* r_sections.difference(l_sections)
AddedNames(lm, rm) == SectionNames(rm) \ SectionNames(lm)

\* the orders in which a loop over the set S may meet its elements
Orders(S) ==
    {q \in [1..Cardinality(S) -> S] : \A i, j \in DOMAIN q : q[i] = q[j] => i = j}

\* the records collect_impl yields when its three loops meet the names in
\* the orders qc, qr and qa
CollectImpl(lm, rm, qc, qr, qa) ==
    <<[kind |-> "ManifestMainChange", ldata |-> lm.attrs, rdata |-> rm.attrs]>>
    \o [i \in 1..Len(qc) |->
           [kind |-> "ManifestSectionChange",
            ldata |-> Get(lm.subs, qc[i]), rdata |-> Get(rm.subs, qc[i])]]
    \o [i \in 1..Len(qr) |->
           [kind |-> "ManifestSectionRemoved",
            ldata |-> Get(lm.subs, qr[i]), rdata |-> None]]
    \o [i \in 1..Len(qa) |->
           [kind |-> "ManifestSectionAdded",
            ldata |-> None, rdata |-> Get(rm.subs, qa[i])]]

\* getattr(options, name, default)
GetAttr(options, name, default) ==
    IF name \in DOMAIN options THEN options[name] ELSE default

\* set(d.items())
Items(d) == {d[i] : i \in 1..Len(d)}

ChangedKeysMutant(l, r) == {p[1] : p \in Items(l) \ Items(r)}

\* set(k for k,v in lset.symmetric_difference(rset))
ChangedKeys(l, r) ==
    {p[1] : p \in (Items(l) \ Items(r)) \cup (Items(r) \ Items(l))}

\* the part ManifestMainChange.is_ignored and
\* ManifestSectionChange.is_ignored share
IgnoredByKeys(c, options) ==
    LET ikeys == GetAttr(options, "ignore_manifest_key", {})
    IN  IF ikeys # {} THEN ChangedKeys(c.ldata, c.rdata) \subseteq ikeys ELSE FALSE

\* c.is_ignored(options), by the class of the record c
IsIgnored(c, options) ==
    CASE c.kind = "ManifestMainChange" -> IgnoredByKeys(c, options)
      [] c.kind = "ManifestSectionChange" ->
             IF GetAttr(options, "ignore_manifest_subsections", FALSE) THEN TRUE
             ELSE IgnoredByKeys(c, options)
      [] OTHER -> GetAttr(options, "ignore_manifest_subsections", FALSE)

-----------------------------------------------------------------------------
(* parse_sections and Manifest.parse *)

\* iterating a StringIO: each line ends after its "\n", the last one at the
\* end of the data
IterLines(data) ==
    LET ends == {i \in 1..Len(data) : data[i] = "\n" \/ i = Len(data)}
        start(e) == Max({0} \cup {f \in ends : f < e}) + 1
        nth(k) == CHOOSE e \in ends : Cardinality({f \in ends : f <= e}) = k
    IN  [k \in 1..Cardinality(ends) |-> SubSeq(data, start(nth(k)), nth(k))]

NotNul(c) == c # NUL

\* line.replace('\x00', '')
StripNul(s) == SelectSeq(s, NotNul)

\* s.splitlines()[0] for a non-empty s: the text before the first terminator
FirstLine(s) ==
    LET terms == {i \in 1..Len(s) : s[i] = "\n" \/ s[i] = "\r"}
    IN  IF terms = {} THEN s ELSE SubSeq(s, 1, Min(terms) - 1)

\* the position of the first colon of s, 0 when there is none
ColonAt(s) ==
    IF \E i \in 1..Len(s) : s[i] = COLON
    THEN CHOOSE i \in 1..Len(s) : s[i] = COLON /\ \A j \in 1..(i - 1) : s[j] # COLON
    ELSE 0

\* the line number put in the message of MalformedManifest, for the line
\* enumerate() gave the index lineno (the first line has index 0)
ReportedLine(lineno) == lineno

\* Manifest.parse consuming one section yielded by parse_sections: the
\* first goes to the main attributes, the others become sub-sections
LoadYielded(m, nsec, curr) ==
    IF nsec = 0
    THEN LET r == LoadItems(m.attrs, curr)
         IN  [m |-> [m EXCEPT !.attrs = r.attrs], err |-> r.err]
    ELSE LET r == LoadItems(NewSection(NameKey, None), curr)
         IN  IF r.err # "none" THEN [m |-> m, err |-> r.err]
             ELSE [m |-> [m EXCEPT !.subs =
                              DictSet(m.subs, Primary(r.attrs, NameKey), r.attrs)],
                   err |-> "none"]

\* the loop of parse_sections over the lines left, run together with the
\* loop of Manifest.parse that loads each section as soon as it is yielded.
\* open is FALSE while curr is None; curr is the list of (key, [val, ...])
\* of the open section.
RECURSIVE ParseLoop(_, _, _, _, _, _)
ParseLoop(lines, lineno, open, curr, m, nsec) ==
    IF lines = <<>>
    THEN \* "yield any leftovers", then the generator is exhausted
         IF open /\ curr # <<>>
         THEN LET y == LoadYielded(m, nsec, curr)
              IN  [m |-> y.m, err |-> y.err, line |-> 0]
         ELSE IF nsec = 0
              THEN [m |-> m, err |-> "StopIteration", line |-> 0]
              ELSE [m |-> m, err |-> "none", line |-> 0]
    ELSE LET stripped == StripNul(Head(lines))
             cleanline == FirstLine(stripped)
         IN  IF stripped = <<>>
             THEN [m |-> m, err |-> "IndexError", line |-> 0]
             ELSE IF cleanline = <<>>
             THEN \* blank line: end of the current section, if any
                  IF open /\ curr # <<>>
                  THEN LET y == LoadYielded(m, nsec, curr)
                       IN  IF y.err # "none"
                           THEN [m |-> y.m, err |-> y.err, line |-> 0]
                           ELSE ParseLoop(Tail(lines), lineno + 1, FALSE, <<>>,
                                          y.m, nsec + 1)
                  ELSE ParseLoop(Tail(lines), lineno + 1, open, curr, m, nsec)
             ELSE IF Head(cleanline) = SPACE
             THEN \* continuation
                  IF ~open
                  THEN [m |-> m, err |-> "MalformedManifest",
                        line |-> ReportedLine(lineno)]
                  ELSE LET n == Len(curr)
                           last == <<curr[n][1], Append(curr[n][2], Tail(cleanline))>>
                       IN  ParseLoop(Tail(lines), lineno + 1, TRUE,
                                     [curr EXCEPT ![n] = last], m, nsec)
             ELSE \* a new key: value pair
                  LET c == ColonAt(cleanline)
                  IN  IF c = 0
                      THEN [m |-> m, err |-> "ValueError", line |-> 0]
                      ELSE LET key == Take(cleanline, c - 1)
                               val == Drop(cleanline, c)
                           IN  ParseLoop(Tail(lines), lineno + 1, TRUE,
                                         Append(curr, <<key, <<Drop(val, 1)>> >>),
                                         m, nsec)

\* Manifest.parse(data) on the Manifest m: the Manifest afterwards, the
\* exception raised ("none" when it returns) and the line number in the
\* message of a MalformedManifest
ManifestParse(m, data) ==
    IF data = <<>> \/ data = None
    THEN [m |-> m, err |-> "StopIteration", line |-> 0]
    ELSE ParseLoop(IterLines(data), 0, FALSE, <<>>, m, 0)

NotDropped(c) == c # "dropped"

\* a file opened in mode "U": every "\r\n" and every "\r" reads as "\n"
UniversalNewlines(data) ==
    SelectSeq([i \in 1..Len(data) |->
                  IF data[i] = "\r" THEN "\n"
                  ELSE IF data[i] = "\n" /\ i > 1 /\ data[i - 1] = "\r" THEN "dropped"
                  ELSE data[i]],
              NotDropped)

\* the kinds of line ending read from the file
NewlinesSeen(data) ==
    {k \in {CR, LF, CRLF} :
        \E i \in 1..Len(data) :
            /\ i + Len(k) - 1 <= Len(data)
            /\ SubSeq(data, i, i + Len(k) - 1) = k
            /\ (k = CR) => (i = Len(data) \/ data[i + 1] # "\n")
            /\ (k = LF) => (i = 1 \/ data[i - 1] # "\r")}

\* "".join(stream.newlines): the kinds seen, in the order "\r", "\n", "\r\n"
JoinNewlines(seen) ==
    (IF CR \in seen THEN CR ELSE <<>>)
        \o (IF LF \in seen THEN LF ELSE <<>>)
        \o (IF CRLF \in seen THEN CRLF ELSE <<>>)

\* Manifest.parse_file on a file holding data
ManifestParseFile(m, data) ==
    LET r == ManifestParse(m, UniversalNewlines(data))
    IN  IF r.err # "none" THEN r
        ELSE IF r.m.linesep # None THEN r
        ELSE IF NewlinesSeen(data) = {}
             THEN [m |-> r.m, err |-> "TypeError", line |-> 0]
             ELSE [m |-> [r.m EXCEPT !.linesep = JoinNewlines(NewlinesSeen(data))],
                   err |-> "none", line |-> 0]

-----------------------------------------------------------------------------
(* The variables of the specifications that are not running *)

TKIdle ==
    /\ tkCall = "idle"
    /\ tkLines = <<>>
    /\ tkSep = None
    /\ tkPre = None
    /\ tkPost = None
    /\ tkExc = "idle"
    /\ tkLineNo = 0

MFIdle ==
    /\ mf = None
    /\ osLinesep = None
    /\ phase = "idle"
    /\ exc = "none"
    /\ storeArg = None
    /\ written = <<>>
    /\ pm = None
    /\ alg = None
    /\ sf = None

DIdle ==
    /\ dLeft = None
    /\ dRight = None
    /\ dOpts = <<>>
    /\ dChanges = <<>>
    /\ dIgnored = <<>>
    /\ dState = "idle"

KVIdle ==
    /\ kvKey = None
    /\ kvVal = None
    /\ kvSep = None
    /\ kvStream = <<>>
    /\ kvState = "idle"
    /\ kvBack = <<>>
    /\ kvLoad = "none"

-----------------------------------------------------------------------------
(* Specification SpecKV: one call of write_key_val on a fresh stream, then  *)
(* the stream is tokenized and loaded                                      *)

\* the longest key tried
MaxKeyIn == 70
\* the longest value tried
MaxValIn == 75

\* keys of every length, and two that begin with a space
KeyInputs ==
    {None} \cup {Rep("k", n) : n \in 0..MaxKeyIn} \cup {<<SPACE>>, <<SPACE, "k">>}

\* values of every length: of letters, starting with a space, ending with
\* a space, of spaces only
ValInputs ==
    {None} \cup {Rep("v", n) : n \in 0..MaxValIn}
           \cup {<<SPACE>> \o Rep("v", n) : n \in 0..(MaxValIn - 1)}
           \cup {Rep("v", n) \o <<SPACE>> : n \in 0..(MaxValIn - 1)}
           \cup {Rep(SPACE, n) : n \in 1..MaxValIn}

SepInputs == {None, LF, CR, CRLF}

InitKV ==
    /\ kvKey \in KeyInputs
    /\ kvVal \in ValInputs
    /\ kvSep \in SepInputs
    /\ kvStream = <<>>
    /\ kvState = "ready"
    /\ kvBack = <<>>
    /\ kvLoad = "none"
    /\ TKIdle
    /\ MFIdle
    /\ DIdle

\* the call returns
KVWrite ==
    /\ kvState = "ready"
    /\ LET r == WriteKeyVal(kvStream, kvKey, kvVal, kvSep)
       IN  /\ r.err = "none"
           /\ kvStream' = r.stream
           /\ kvState' = "written"
    /\ UNCHANGED <<kvKey, kvVal, kvSep, kvBack, kvLoad, tkVars, mfVars, dVars>>

\* the call raises
KVRaise ==
    /\ kvState = "ready"
    /\ LET r == WriteKeyVal(kvStream, kvKey, kvVal, kvSep)
       IN  /\ r.err # "none"
           /\ kvStream' = r.stream
           /\ kvState' = r.err
    /\ UNCHANGED <<kvKey, kvVal, kvSep, kvBack, kvLoad, tkVars, mfVars, dVars>>

\* m = Manifest(); m.clear(); m.parse(stream.getvalue()) returns: the one
\* section of the stream goes through parse_sections and load
KVLoad ==
    /\ kvState = "written"
    /\ kvLoad = "none"
    /\ LET r == ManifestParse(
                    ManifestClear(NewManifest(ManifestVersionKey, DefaultVersion, None)),
                    kvStream)
       IN  /\ r.err = "none"
           /\ kvBack' = r.m.attrs
           /\ kvLoad' = "loaded"
    /\ UNCHANGED <<kvKey, kvVal, kvSep, kvStream, kvState, tkVars, mfVars, dVars>>

\* the same call raises
KVLoadRaises ==
    /\ kvState = "written"
    /\ kvLoad = "none"
    /\ LET r == ManifestParse(
                    ManifestClear(NewManifest(ManifestVersionKey, DefaultVersion, None)),
                    kvStream)
       IN  /\ r.err # "none"
           /\ kvBack' = r.m.attrs
           /\ kvLoad' = r.err
    /\ UNCHANGED <<kvKey, kvVal, kvSep, kvStream, kvState, tkVars, mfVars, dVars>>

NextKV == KVWrite \/ KVRaise \/ KVLoad \/ KVLoadRaises

SpecKV == InitKV /\ [][NextKV]_vars

-----------------------------------------------------------------------------
(* Specification SpecParse: one call of Manifest.parse on a str, or of      *)
(* Manifest.parse_file on a file of the same contents                      *)

\* the most lines an input has
MaxLines == 4

ValX == <<"x">>
ValY == <<"y">>
KeyA == <<"A">>
NameA == <<"a">>
NameB == <<"b">>

\* the lines inputs are made of: key lines, a blank line, a continuation
\* line, a key line without a space after the colon, a line without colon,
\* a line with a null byte
LineTokens ==
    { ManifestVersionKey \o <<COLON, SPACE, "2", ".", "0">>,
      KeyA \o <<COLON, SPACE>> \o ValX,
      NameKey \o <<COLON, SPACE>> \o NameA,
      <<>>,
      <<SPACE, "c">>,
      <<"B", COLON, "y", "z">>,
      <<"B">>,
      <<NUL>> }

LineInputs == UNION {[1..n -> LineTokens] : n \in 0..MaxLines}

\* the text of the lines, each ended by sep
RECURSIVE TextOf(_, _)
TextOf(lines, sep) ==
    IF lines = <<>> THEN <<>> ELSE Head(lines) \o sep \o TextOf(Tail(lines), sep)

\* a Manifest as its constructor leaves it, and one with a sub-section
PreManifests ==
    { NewManifest(ManifestVersionKey, DefaultVersion, None),
      CreateSection(NewManifest(ManifestVersionKey, DefaultVersion, LF), NameA, TRUE) }

InitParse ==
    /\ tkCall \in {"parse", "parse_file"}
    /\ tkLines \in LineInputs
    /\ tkSep \in {LF, CRLF, CR}
    /\ tkPre \in PreManifests
    /\ tkPost = tkPre
    /\ tkExc = "ready"
    /\ tkLineNo = 0
    /\ KVIdle
    /\ MFIdle
    /\ DIdle

\* mf.parse(data) returns
ParseReturns ==
    /\ tkExc = "ready"
    /\ tkCall = "parse"
    /\ LET r == ManifestParse(tkPre, TextOf(tkLines, tkSep))
       IN  /\ r.err = "none"
           /\ tkPost' = r.m
           /\ tkExc' = "returned"
           /\ tkLineNo' = 0
    /\ UNCHANGED <<tkCall, tkLines, tkSep, tkPre, kvVars, mfVars, dVars>>

\* mf.parse(data) raises
ParseRaises ==
    /\ tkExc = "ready"
    /\ tkCall = "parse"
    /\ LET r == ManifestParse(tkPre, TextOf(tkLines, tkSep))
       IN  /\ r.err # "none"
           /\ tkPost' = r.m
           /\ tkExc' = r.err
           /\ tkLineNo' = r.line
    /\ UNCHANGED <<tkCall, tkLines, tkSep, tkPre, kvVars, mfVars, dVars>>

\* mf.parse_file(filename) returns
ParseFileReturns ==
    /\ tkExc = "ready"
    /\ tkCall = "parse_file"
    /\ LET r == ManifestParseFile(tkPre, TextOf(tkLines, tkSep))
       IN  /\ r.err = "none"
           /\ tkPost' = r.m
           /\ tkExc' = "returned"
           /\ tkLineNo' = 0
    /\ UNCHANGED <<tkCall, tkLines, tkSep, tkPre, kvVars, mfVars, dVars>>

\* mf.parse_file(filename) raises
ParseFileRaises ==
    /\ tkExc = "ready"
    /\ tkCall = "parse_file"
    /\ LET r == ManifestParseFile(tkPre, TextOf(tkLines, tkSep))
       IN  /\ r.err # "none"
           /\ tkPost' = r.m
           /\ tkExc' = r.err
           /\ tkLineNo' = r.line
    /\ UNCHANGED <<tkCall, tkLines, tkSep, tkPre, kvVars, mfVars, dVars>>

NextParse == ParseReturns \/ ParseRaises \/ ParseFileReturns \/ ParseFileRaises

SpecParse == InitParse /\ [][NextParse]_vars

-----------------------------------------------------------------------------
(* Specification Spec: a Manifest is made, edited, cleared and parsed into, *)
(* then stored and parsed back, or digested into a SignatureManifest        *)

\* how many sub-section names are in use
NumNames == 2

Names == {<<c>> : c \in {(<<"a", "b", "c", "d">>)[i] : i \in 1..NumNames}}

\* a key __setitem__ refuses
LongKey == Rep("k", SetItemKeyMax + 1)

MainKeys == {ManifestVersionKey, KeyA, LongKey}
SubKeys == {KeyA}
SubValues == {ValX, ValY}

\* the texts given to mf.parse while the Manifest is edited: an attribute
\* before Manifest-Version and a sub-section whose Name comes last; a
\* continuation line after the main section; a plain manifest
BuildInputs ==
    { TextOf(<<KeyA \o <<COLON, SPACE>> \o ValX,
               ManifestVersionKey \o <<COLON, SPACE>> \o ValX,
               <<>>,
               KeyA \o <<COLON, SPACE>> \o ValY,
               NameKey \o <<COLON, SPACE>> \o NameB>>, LF),
      TextOf(<<KeyA \o <<COLON, SPACE>> \o ValX, <<>>, <<SPACE, "c">> >>, LF),
      TextOf(<<ManifestVersionKey \o <<COLON, SPACE>> \o ValX,
               <<>>,
               NameKey \o <<COLON, SPACE>> \o NameA,
               KeyA \o <<COLON, SPACE>> \o ValX>>, CRLF) }

Init ==
    /\ mf \in {NewManifest(ManifestVersionKey, DefaultVersion, l) :
                  l \in {None, LF, CRLF, CR}}
    /\ osLinesep \in {LF, CRLF}
    /\ phase = "build"
    /\ exc = "none"
    /\ storeArg = None
    /\ written = <<>>
    /\ pm = None
    /\ alg = None
    /\ sf = None
    /\ KVIdle
    /\ TKIdle
    /\ DIdle

\* mf[k] = v
SetAttr(k, v) ==
    /\ phase = "build"
    /\ LET r == SetItem(mf.attrs, k, v)
       IN  /\ mf' = [mf EXCEPT !.attrs = r.attrs]
           /\ exc' = r.err
    /\ UNCHANGED <<osLinesep, phase, storeArg, written, pm, alg, sf, kvVars, tkVars, dVars>>

\* mf.create_section(name, overwrite)
CreateSec(name, overwrite) ==
    /\ phase = "build"
    /\ mf' = CreateSection(mf, name, overwrite)
    /\ exc' = "none"
    /\ UNCHANGED <<osLinesep, phase, storeArg, written, pm, alg, sf, kvVars, tkVars, dVars>>

\* mf.sub_sections[name][k] = v
SetSubAttr(name, k, v) ==
    /\ phase = "build"
    /\ HasKey(mf.subs, name)
    /\ LET r == SetItem(Get(mf.subs, name), k, v)
       IN  /\ mf' = [mf EXCEPT !.subs = DictSet(mf.subs, name, r.attrs)]
           /\ exc' = r.err
    /\ UNCHANGED <<osLinesep, phase, storeArg, written, pm, alg, sf, kvVars, tkVars, dVars>>

\* mf.clear()
Clear ==
    /\ phase = "build"
    /\ mf' = ManifestClear(mf)
    /\ exc' = "none"
    /\ UNCHANGED <<osLinesep, phase, storeArg, written, pm, alg, sf, kvVars, tkVars, dVars>>

\* mf.parse(data)
ParseText(data) ==
    /\ phase = "build"
    /\ LET r == ManifestParse(mf, data)
       IN  /\ mf' = r.m
           /\ exc' = r.err
    /\ UNCHANGED <<osLinesep, phase, storeArg, written, pm, alg, sf, kvVars, tkVars, dVars>>

\* mf.store(stream, arg) on an empty stream
Store(arg) ==
    /\ phase = "build"
    /\ LET r == ManifestStore(<<>>, mf, arg, osLinesep)
       IN  /\ written' = r.stream
           /\ exc' = r.err
    /\ storeArg' = arg
    /\ phase' = "stored"
    /\ UNCHANGED <<mf, osLinesep, pm, alg, sf, kvVars, tkVars, dVars>>

\* pm = Manifest(); pm.parse(written)
ParseBack ==
    /\ phase = "stored"
    /\ exc = "none"
    /\ LET r == ManifestParse(NewManifest(ManifestVersionKey, DefaultVersion, None),
                              written)
       IN  /\ pm' = r.m
           /\ exc' = r.err
    /\ phase' = "parsed"
    /\ UNCHANGED <<mf, osLinesep, storeArg, written, alg, sf, kvVars, tkVars, dVars>>

\* sf = SignatureManifest(linesep=mf.linesep); sf.digest_manifest(mf, a)
Digest(a) ==
    /\ phase = "build"
    /\ LET r == DigestManifest(
                    NewManifest(SignatureVersionKey, DefaultVersion, mf.linesep),
                    mf, a, osLinesep)
       IN  /\ sf' = r.sf
           /\ exc' = r.err
    /\ alg' = a
    /\ phase' = "digested"
    /\ UNCHANGED <<mf, osLinesep, storeArg, written, pm, kvVars, tkVars, dVars>>

Next ==
    \/ \E k \in MainKeys, v \in {ValX} : SetAttr(k, v)
    \/ \E n \in Names, o \in BOOLEAN : CreateSec(n, o)
    \/ \E n \in Names, k \in SubKeys, v \in SubValues : SetSubAttr(n, k, v)
    \/ Clear
    \/ \E d \in BuildInputs : ParseText(d)
    \/ \E a \in {None, CRLF} : Store(a)
    \/ ParseBack
    \/ \E a \in KnownAlgs \cup {AlgMD2} : Digest(a)

Spec == Init /\ [][Next]_vars

-----------------------------------------------------------------------------
(* Specification SpecDiff: two Manifests are compared, then every record is *)
(* asked whether it is ignored                                              *)

\* a section as create_section leaves it, and with one more attribute
SectionsNamed(n) ==
    { NewSection(NameKey, n), SetItem(NewSection(NameKey, n), KeyA, ValX).attrs }

\* the dictionaries of sub-sections over the names in N, in one order
RECURSIVE SubDicts(_)
SubDicts(N) ==
    IF N = {} THEN {<<>>}
    ELSE LET n == Smallest(N)
         IN  SubDicts(N \ {n}) \cup
                 {<<<<n, d>>>> \o rest : d \in SectionsNamed(n), rest \in SubDicts(N \ {n})}

DiffManifests ==
    {[attrs |-> a, subs |-> d, linesep |-> None] :
        a \in { NewSection(ManifestVersionKey, DefaultVersion),
                SetItem(NewSection(ManifestVersionKey, DefaultVersion), KeyA, ValX).attrs,
                SetItem(NewSection(ManifestVersionKey, DefaultVersion), KeyA, ValY).attrs },
        d \in SubDicts(Names)}

IgnoreKeySets == SUBSET {KeyA, NameKey}

\* options objects with both attributes, with one of them, with none
OptionObjects ==
    {[ignore_manifest_subsections |-> f, ignore_manifest_key |-> ks] :
         f \in BOOLEAN, ks \in IgnoreKeySets}
    \cup {[ignore_manifest_key |-> ks] : ks \in IgnoreKeySets}
    \cup {[ignore_manifest_subsections |-> f] : f \in BOOLEAN}
    \cup {<<>>}

InitDiff ==
    /\ dLeft \in DiffManifests
    /\ dRight \in DiffManifests
    /\ dOpts \in OptionObjects
    /\ dChanges = <<>>
    /\ dIgnored = <<>>
    /\ dState = "ready"
    /\ KVIdle
    /\ TKIdle
    /\ MFIdle

\* list(ManifestChange(dLeft, dRight).collect_impl())
Collect ==
    /\ dState = "ready"
    /\ \E qc \in Orders(ChangedNames(dLeft, dRight)),
          qr \in Orders(RemovedNames(dLeft, dRight)),
          qa \in Orders(AddedNames(dLeft, dRight)) :
           dChanges' = CollectImpl(dLeft, dRight, qc, qr, qa)
    /\ dState' = "collected"
    /\ UNCHANGED <<dLeft, dRight, dOpts, dIgnored, kvVars, tkVars, mfVars>>

\* [c.is_ignored(dOpts) for c in dChanges]
Judge ==
    /\ dState = "collected"
    /\ dIgnored' = [i \in 1..Len(dChanges) |-> IsIgnored(dChanges[i], dOpts)]
    /\ dState' = "judged"
    /\ UNCHANGED <<dLeft, dRight, dOpts, dChanges, kvVars, tkVars, mfVars>>

NextDiff == Collect \/ Judge

SpecDiff == InitDiff /\ [][NextDiff]_vars

-----------------------------------------------------------------------------
(* Properties of write_key_val *)

\* the width limit of a physical line, terminator included
MaxLineWidth == 72

\* the positions at which an occurrence of the terminator sep ends in out
SepEnds(out, sep) ==
    {i + Len(sep) - 1 : i \in {j \in 1..(Len(out) - Len(sep) + 1) :
                                   SubSeq(out, j, j + Len(sep) - 1) = sep}}


\* the lengths of the physical lines of out, each counted with its
\* terminator sep; text after the last terminator counts as a line too
LineLens(out, sep) ==
    LET ends == SepEnds(out, sep)
        start(e) == Max({0} \cup {f \in ends : f < e})
        last == Max({0} \cup ends)
    IN  {e - start(e) : e \in ends}
            \cup (IF last < Len(out) THEN {Len(out) - last} ELSE {})

\* the number of physical lines of out
LineCount(out, sep) ==
    Cardinality(SepEnds(out, sep))
        + (IF Max({0} \cup SepEnds(out, sep)) < Len(out) THEN 1 ELSE 0)

\* out ends with sep
EndsWith(out, sep) ==
    Len(out) >= Len(sep) /\ Drop(out, Len(out) - Len(sep)) = sep

KVLen(x) == Len(Or(x, <<>>))

\* C3: for a key of length 1..68, any value and a separator of 1 or 2
\* bytes, every physical line written is at most 72 bytes long including
\* its separator, and when len(key) + len(value) = 69 the output is the
\* first line plus exactly one continuation line.
LineWidthBounded ==
    (kvState = "written" /\ kvSep # None) =>
        /\ EndsWith(kvStream, kvSep)
        /\ \A n \in LineLens(kvStream, kvSep) : n <= MaxLineWidth
        /\ (KVLen(kvKey) + KVLen(kvVal) = FoldThreshold + 1) =>
               /\ LineCount(kvStream, kvSep) = 2
               /\ kvStream[Min(SepEnds(kvStream, kvSep)) + 1] = SPACE

\* a key 68 long and a value 1 long have been written with a 2-byte separator
LineWidthWitness ==
    /\ kvState = "written"
    /\ kvSep = CRLF
    /\ KVLen(kvKey) = KeyLenLimit - 1
    /\ KVLen(kvVal) = 1
    /\ LineCount(kvStream, kvSep) = 2
    /\ MaxLineWidth \in LineLens(kvStream, kvSep)

\* C4: writing succeeds iff the key length is in 1..68; an empty, absent or
\* longer key fails with the key-length error and the stream is untouched.
KeyLengthBoundary ==
    (kvState # "ready" /\ kvSep # None) =>
        /\ (kvState = "written") <=> (KVLen(kvKey) \in 1..68)
        /\ (KVLen(kvKey) \notin 1..68) =>
               (kvState = "ManifestKeyException" /\ kvStream = <<>>)

\* a 69-character key has been refused
KeyLengthWitness ==
    /\ kvState = "ManifestKeyException"
    /\ KVLen(kvKey) = 69
    /\ kvStream = <<>>

\* the string "key: value" of the call
KVText == Or(kvKey, <<>>) \o <<COLON, SPACE>> \o Or(kvVal, <<>>)

\* how many chunks follow the first one when kv is cut into a first chunk of
\* 70 characters and chunks of up to 69 characters
ChunksAfterFirst(kv) ==
    IF Len(kv) <= FirstChunk THEN 0
    ELSE (Len(kv) - FirstChunk + ContChunk - 1) \div ContChunk

\* the i-th chunk after the first
ChunkAt(kv, i) ==
    SubSeq(kv, FirstChunk + ContChunk * (i - 1) + 1,
           Min({Len(kv), FirstChunk + ContChunk * i}))

\* the separator, one space and the chunk, for the chunks i..n
RECURSIVE ContinuationText(_, _, _, _)
ContinuationText(kv, sep, i, n) ==
    IF i > n THEN <<>>
    ELSE sep \o <<SPACE>> \o ChunkAt(kv, i) \o ContinuationText(kv, sep, i + 1, n)

\* the folded form: the first 70 characters, the continuation lines, and
\* the separator at the end
FoldedText(kv, sep) ==
    Take(kv, FirstChunk)
        \o ContinuationText(kv, sep, 1, ChunksAfterFirst(kv)) \o sep

\* the pair was written on more than one physical line
WasFolded == LineCount(kvStream, kvSep) > 1

\* C11 as stated: the writer folds exactly when the length of "key: value"
\* exceeds 68; up to 68 it writes "key: value" and the separator; when
\* folding it writes the first 70 characters, then for every following chunk
\* of up to 69 characters the separator, a space and the chunk, and the
\* separator at the end.
FoldsAboveSixtyEight ==
    (kvState = "written" /\ kvSep # None) =>
        /\ WasFolded <=> (Len(KVText) > FoldThreshold)
        /\ Len(KVText) <= FoldThreshold => kvStream = KVText \o kvSep
        /\ WasFolded => kvStream = FoldedText(KVText, kvSep)

\* C11 as amended: the writer folds exactly when len(key) + len(value)
\* exceeds 68, that is when "key: value" is longer than 70 characters; up to
\* there it writes "key: value" and the separator on one line; when folding
\* it writes the first 70 characters, then for every following chunk of up
\* to 69 characters the separator, a space and the chunk, and the separator
\* at the end.
FoldingThreshold ==
    (kvState = "written" /\ kvSep # None) =>
        /\ WasFolded <=> (KVLen(kvKey) + KVLen(kvVal) > FoldThreshold)
        /\ WasFolded <=> (Len(KVText) > FirstChunk)
        /\ ~WasFolded => kvStream = KVText \o kvSep
        /\ WasFolded => kvStream = FoldedText(KVText, kvSep)

\* a pair needing two continuation lines has been written, the second one
\* shorter than the first
FoldingWitness ==
    /\ kvState = "written"
    /\ kvSep = CRLF
    /\ WasFolded
    /\ ChunksAfterFirst(KVText) = 2
    /\ LineCount(kvStream, kvSep) = 3
    /\ Len(KVText) < FirstChunk + 2 * ContChunk

\* C16: for a key of length 1..68 without colon and a value of any length
\* without line terminator or null byte (also one that begins or ends with
\* spaces, also the empty one), tokenizing what the key-value writer wrote
\* and loading it gives one attribute with that key and that value.
FoldUnfoldRoundTrip ==
    (kvState = "written" /\ kvLoad # "none" /\ kvVal # None) =>
        /\ kvLoad = "loaded"
        /\ kvBack = <<<<kvKey, kvVal>>>>

\* what the code does: the round trip holds when the key does not begin
\* with a space and the separator is "\n" or "\r\n", or nothing was folded
FoldUnfoldWithNewline ==
    (kvState = "written" /\ kvLoad # "none" /\ kvVal # None
         /\ Head(kvKey) # SPACE /\ (kvSep \in {LF, CRLF} \/ ~WasFolded)) =>
        /\ kvLoad = "loaded"
        /\ kvBack = <<<<kvKey, kvVal>>>>

\* what the code does with "\r" for a separator: of a folded pair, only
\* the first physical line comes back
FoldUnfoldWithCR ==
    (kvState = "written" /\ kvLoad # "none" /\ kvVal # None
         /\ Head(kvKey) # SPACE /\ kvSep = CR /\ WasFolded) =>
        /\ kvLoad = "loaded"
        /\ kvBack = <<<<kvKey, Drop(Take(KVText, FirstChunk), Len(kvKey) + 2)>>>>

-----------------------------------------------------------------------------
(* Properties of parse_sections and Manifest.parse *)

IsBlank(l) == l = <<>>
IsContinuation(l) == l # <<>> /\ Head(l) = SPACE

\* the lines of tkLines that begin with a space while no section is open:
\* at the very start of the input or right after a blank line
Orphans ==
    {i \in 1..Len(tkLines) :
        /\ IsContinuation(tkLines[i])
        /\ (i = 1 \/ IsBlank(tkLines[i - 1]))}

\* the tokenizer got as far as line i: every line before it is a key line, a
\* blank line or a continuation of an open section
Meets(i) ==
    \A j \in 1..(i - 1) :
        /\ j \notin Orphans
        /\ tkLines[j] # <<NUL>>
        /\ (IsBlank(tkLines[j]) \/ IsContinuation(tkLines[j])
              \/ ColonAt(tkLines[j]) # 0)

\* C5: when the tokenizer meets a line beginning with a space while no
\* section is open, it fails with the malformed-input error, and the line
\* number carried by the error is the 1-based number of that line.
OrphanLineOneBased ==
    (tkExc \notin {"ready", "idle"} /\ tkSep # CR) =>
        \A i \in Orphans :
            Meets(i) => (tkExc = "MalformedManifest" /\ tkLineNo = i)

\* what the code does: the number carried is the index enumerate() gives,
\* one less than the 1-based number of the line
OrphanLineZeroBased ==
    (tkExc \notin {"ready", "idle"} /\ tkSep # CR) =>
        \A i \in Orphans :
            Meets(i) => (tkExc = "MalformedManifest" /\ tkLineNo = i - 1)

\* C9: if Manifest.parse fails with the malformed-input error, the main
\* attributes and the sub-sections are what they were before the call.
NoPartialParse ==
    tkExc = "MalformedManifest" => tkPost = tkPre

IsKeyLine(l) == ~IsBlank(l) /\ ~IsContinuation(l) /\ ColonAt(l) # 0

\* a line that is empty once its null bytes are removed ends a section
EndsSection(l) == StripNul(l) = <<>>

\* the lines of the first section of tkLines, which Manifest.parse loads
\* into the main attributes
MainLines ==
    {i \in 1..Len(tkLines) :
        /\ ~EndsSection(tkLines[i])
        /\ \A j \in 1..(i - 1) :
               EndsSection(tkLines[j]) => \A h \in 1..j : EndsSection(tkLines[h])}

\* the key lines of the main section that no later line of it overrides
LastKeyLines ==
    {i \in MainLines :
        /\ IsKeyLine(tkLines[i])
        /\ \A j \in MainLines :
               (j > i /\ IsKeyLine(tkLines[j])) =>
                   Take(tkLines[j], ColonAt(tkLines[j]) - 1)
                       # Take(tkLines[i], ColonAt(tkLines[i]) - 1)}

\* the text after the first colon, less one space if it begins with a space
FragmentLessSpace(l) ==
    LET t == Drop(l, ColonAt(l))
    IN  IF t # <<>> /\ Head(t) = SPACE THEN Tail(t) ELSE t

\* the text after the first colon, less its first character
FragmentLessOne(l) == Drop(Drop(l, ColonAt(l)), 1)

StartsWith(s, p) == Len(s) >= Len(p) /\ Take(s, Len(p)) = p

\* C12: for a non-blank line that does not begin with a space, the key is
\* the text before the first colon and the first fragment of its value is
\* the text after that colon with one leading space removed if it begins
\* with a space and nothing removed otherwise; seen in the attribute the
\* line gives once parse has returned.
KeyLineFragment ==
    (tkExc = "returned" /\ tkSep # CR) =>
        \A i \in LastKeyLines :
            LET key == Take(tkLines[i], ColonAt(tkLines[i]) - 1)
            IN  /\ HasKey(tkPost.attrs, key)
                /\ StartsWith(Get(tkPost.attrs, key), FragmentLessSpace(tkLines[i]))

\* what the code does: the first character after the colon is dropped,
\* whatever it is
KeyLineDropsOne ==
    (tkExc = "returned" /\ tkSep # CR) =>
        \A i \in LastKeyLines :
            LET key == Take(tkLines[i], ColonAt(tkLines[i]) - 1)
            IN  /\ HasKey(tkPost.attrs, key)
                /\ StartsWith(Get(tkPost.attrs, key), FragmentLessOne(tkLines[i]))

\* C15: after parsing a source into a Manifest whose line separator was
\* not configured, the separator of the Manifest is the one of the source,
\* and a store without separator argument writes with it, for parse as
\* well as for parse_file; a configured separator is left as it was.
SeparatorDetected ==
    tkExc = "returned" =>
        /\ tkPre.linesep = None =>
               /\ tkPost.linesep = tkSep
               /\ \A os \in {LF, CRLF} : EffectiveSep(None, tkPost, os) = tkSep
        /\ tkPre.linesep # None => tkPost.linesep = tkPre.linesep

\* what the code does: parse_file sets a separator that was not configured
\* to the one of the file, parse leaves the separator as it was
SeparatorDetectedByParseFile ==
    tkExc = "returned" =>
        /\ (tkCall = "parse_file" /\ tkPre.linesep = None) => tkPost.linesep = tkSep
        /\ (tkCall = "parse" \/ tkPre.linesep # None) =>
               tkPost.linesep = tkPre.linesep

-----------------------------------------------------------------------------
(* Properties of Manifest.store, Manifest.parse and digest_manifest *)

\* the separator mf.store wrote with
StoreSep == EffectiveSep(storeArg, mf, osLinesep)

\* the Manifest has been stored with "\n" or "\r\n" and parsed back, and its
\* main section begins with Manifest-Version, as the constructor leaves it
RoundTripCase ==
    /\ phase = "parsed"
    /\ StoreSep \in {LF, CRLF}
    /\ mf.attrs # <<>>
    /\ mf.attrs[1][1] = ManifestVersionKey

Entries(d) == {d[i] : i \in 1..Len(d)}

RECURSIVE PlainSection(_, _)
PlainSection(d, sep) ==
    IF d = <<>> THEN sep
    ELSE Head(d)[1] \o <<COLON, SPACE>> \o Head(d)[2] \o sep
             \o PlainSection(Tail(d), sep)

\* the bytes of the sub-sections i..n of mf, in insertion order
RECURSIVE SubBytesFrom(_)
SubBytesFrom(i) ==
    IF i > Len(mf.subs) THEN <<>>
    ELSE PlainSection(mf.subs[i][2], mf.linesep) \o SubBytesFrom(i + 1)

HashOf(a, data) == <<"b64", JavaToHashlib(a)>> \o data

\* C2: for a source manifest with a configured separator, digest_manifest
\* sets <ALG>-Digest-Manifest to the digest of the main-section bytes
\* followed by the bytes of the sub-sections in insertion order, as one
\* stream; <ALG>-Digest-Manifest-Main-Attributes to the digest of the
\* main-section bytes alone; and <ALG>-Digest of each signature
\* sub-section to the digest of that sub-section's bytes alone.
DigestOrdering ==
    (phase = "digested" /\ mf.linesep # None /\ alg \in KnownAlgs) =>
        LET main == PlainSection(mf.attrs, mf.linesep)
        IN  /\ exc = "none"
            /\ Get(sf.attrs, alg \o DigestManifestSuffix)
                   = HashOf(alg, main \o SubBytesFrom(1))
            /\ Get(sf.attrs, alg \o DigestMainSuffix) = HashOf(alg, main)
            /\ Len(sf.subs) = Len(mf.subs)
            /\ \A i \in 1..Len(mf.subs) :
                   /\ sf.subs[i][1] = mf.subs[i][1]
                   /\ Get(sf.subs[i][2], alg \o DigestSuffix)
                          = HashOf(alg, PlainSection(mf.subs[i][2], mf.linesep))

\* a manifest whose two sub-sections were inserted in another order than the
\* sorted one has been digested
DigestWitness ==
    /\ phase = "digested"
    /\ exc = "none"
    /\ mf.linesep = CRLF
    /\ Len(mf.subs) = 2
    /\ StoreOrder(mf) # Values(mf.subs)
    /\ Len(sf.subs) = 2

\* "manifest.linesep or os.linesep"
DigestSep == Or(mf.linesep, osLinesep)

\* C14: for every source manifest, also one whose line separator was never
\* configured, digest_manifest completes and the main-attributes digest is
\* that of the main section serialized with the effective separator (the
\* configured one, else the platform default), the separator of the
\* sub-section digests.
DigestWithEffectiveSeparator ==
    (phase = "digested" /\ alg \in KnownAlgs) =>
        /\ exc = "none"
        /\ Get(sf.attrs, alg \o DigestMainSuffix)
               = HashOf(alg, PlainSection(mf.attrs, DigestSep))
        /\ \A i \in 1..Len(mf.subs) :
               Get(Get(sf.subs, mf.subs[i][1]), alg \o DigestSuffix)
                   = HashOf(alg, PlainSection(mf.subs[i][2], DigestSep))

\* what the code does for a manifest without a configured separator: the
\* main section is written with None for a separator, which is a TypeError,
\* and the SignatureManifest gets no digest
DigestUnconfiguredRaises ==
    (phase = "digested" /\ alg \in KnownAlgs /\ mf.linesep = None) =>
        /\ exc = "TypeError"
        /\ ~HasKey(sf.attrs, alg \o DigestMainSuffix)

\* what introduces an attribute named k in a stored manifest
Intro(k) == k \o <<COLON, SPACE>>

\* where the sections after the main one begin in what was written
SubStarts ==
    {e + 1 : e \in {f \in SepEnds(written, StoreSep \o StoreSep) : f < Len(written)}}

\* C10: after any sequence of construction, assignment, parse and clear,
\* when the Manifest is serialized the first attribute written of the main
\* section is Manifest-Version and the first of each sub-section is Name.
PrimaryKeyFirst ==
    (phase = "stored" /\ exc = "none") =>
        /\ mf.attrs # <<>> =>
               Take(written, Len(Intro(ManifestVersionKey)))
                   = Intro(ManifestVersionKey)
        /\ \A p \in SubStarts :
               SubSeq(written, p, p + Len(Intro(NameKey)) - 1) = Intro(NameKey)

\* the part of C10 about sub-sections: the first attribute written of every
\* sub-section is Name
SubSectionNameFirst ==
    (phase = "stored" /\ exc = "none") =>
        \A i \in 1..Len(mf.subs) : mf.subs[i][2][1][1] = NameKey

\* the sections of l as bytes, none of their attributes needing folding
RECURSIVE SectionsBytes(_, _)
SectionsBytes(l, sep) ==
    IF l = <<>> THEN <<>>
    ELSE PlainSection(Head(l), sep) \o SectionsBytes(Tail(l), sep)

\* the sub-section a comes before b by name
NameBefore(a, b) == StrLess(Get(a, NameKey), Get(b, NameKey))

\* k is the least attribute name of a under which b has another value or
\* none
LeastDiffering(a, b, k) ==
    /\ HasKey(a, k)
    /\ Get(b, k) # Get(a, k)
    /\ \A i \in 1..Len(a) :
           Get(b, a[i][1]) # a[i][2] => (a[i][1] = k \/ StrLess(k, a[i][1]))

\* the sub-section a comes before b as Python 2 orders dictionaries: the
\* one with fewer attributes first; of two with as many attributes, the one
\* whose least differing attribute name is smaller, or, under the same
\* name, whose value is smaller
DictBefore(a, b) ==
    \/ Len(a) < Len(b)
    \/ /\ Len(a) = Len(b)
       /\ \E i \in 1..Len(a), j \in 1..Len(b) :
              /\ LeastDiffering(a, b, a[i][1])
              /\ LeastDiffering(b, a, b[j][1])
              /\ \/ StrLess(a[i][1], b[j][1])
                 \/ (a[i][1] = b[j][1] /\ StrLess(a[i][2], b[j][2]))

\* the place of the i-th sub-section of mf when they are arranged by Before
PlaceUnder(Before(_, _), i) ==
    1 + Cardinality({j \in 1..Len(mf.subs) : Before(mf.subs[j][2], mf.subs[i][2])})

\* the sub-sections of mf arranged by Before
ArrangedBy(Before(_, _)) ==
    [r \in 1..Len(mf.subs) |->
        mf.subs[CHOOSE i \in 1..Len(mf.subs) : PlaceUnder(Before, i) = r][2]]

\* C13 as stated: Manifest.store writes the main section first and then
\* every sub-section exactly once, in ascending order of sub-section name,
\* whatever the insertion order and the other attributes.
StoreOrderByName ==
    (phase = "stored" /\ exc = "none") =>
        written = PlainSection(mf.attrs, StoreSep)
                      \o SectionsBytes(ArrangedBy(NameBefore), StoreSep)

\* C13 as amended: Manifest.store writes the main section first and then
\* every sub-section exactly once, in ascending order of the sections as
\* dictionaries: fewer attributes first, then by the least attribute name
\* on which two sections differ, then by the value under it.
StoreOrderByDict ==
    (phase = "stored" /\ exc = "none") =>
        written = PlainSection(mf.attrs, StoreSep)
                      \o SectionsBytes(ArrangedBy(DictBefore), StoreSep)

\* two sub-sections were stored in another order than that of their names,
\* which is not the order of their insertion either
StoreOrderWitness ==
    /\ phase = "stored"
    /\ exc = "none"
    /\ Len(mf.subs) = 2
    /\ ArrangedBy(DictBefore) # ArrangedBy(NameBefore)
    /\ ArrangedBy(DictBefore) # Values(mf.subs)
    /\ written = PlainSection(mf.attrs, StoreSep)
                     \o SectionsBytes(ArrangedBy(DictBefore), StoreSep)

\* what mf.store writes when it is given no separator argument
StoredBytes == ManifestStore(<<>>, mf, None, osLinesep).stream

\* C17: for a source manifest with a configured separator, the bytes
\* digest_manifest feeds to the aggregate <ALG>-Digest-Manifest hash are the
\* bytes Manifest.store writes for the same manifest with the same
\* separator: the aggregate digest is the digest of the serialized manifest.
DigestOfStoredBytes ==
    (phase = "digested" /\ exc = "none" /\ mf.linesep # None) =>
        Get(sf.attrs, alg \o DigestManifestSuffix) = HashOf(alg, StoredBytes)

\* what the code does: the two agree when the sub-sections were inserted in
\* the order Manifest.store sorts them in
DigestOfStoredBytesWhenSorted ==
    (phase = "digested" /\ exc = "none" /\ mf.linesep # None
         /\ Values(mf.subs) = ArrangedBy(DictBefore)) =>
        Get(sf.attrs, alg \o DigestManifestSuffix) = HashOf(alg, StoredBytes)

-----------------------------------------------------------------------------
(* Properties of the change classifier *)

\* the sub-section a record is about: the Name of the side it has
RecordName(c) ==
    IF c.ldata # None THEN Get(c.ldata, NameKey) ELSE Get(c.rdata, NameKey)

RecordsOf(kinds, n) ==
    {i \in 1..Len(dChanges) : dChanges[i].kind \in kinds /\ RecordName(dChanges[i]) = n}

SubKinds ==
    {"ManifestSectionChange", "ManifestSectionRemoved", "ManifestSectionAdded"}

\* C6: the classifier yields exactly one main-section record and, for every
\* sub-section name of either manifest, exactly one record: sub-changed if
\* the name is on both sides, sub-removed if only on the left, sub-added if
\* only on the right; no record is about a name in neither manifest.
OneRecordPerName ==
    dState # "ready" =>
        /\ Cardinality({i \in 1..Len(dChanges) :
                           dChanges[i].kind = "ManifestMainChange"}) = 1
        /\ \A i \in 1..Len(dChanges) :
               dChanges[i].kind \in SubKinds =>
                   RecordName(dChanges[i]) \in SectionNames(dLeft) \cup SectionNames(dRight)
        /\ \A n \in SectionNames(dLeft) \cup SectionNames(dRight) :
               LET kind == IF n \notin SectionNames(dRight) THEN "ManifestSectionRemoved"
                           ELSE IF n \notin SectionNames(dLeft) THEN "ManifestSectionAdded"
                           ELSE "ManifestSectionChange"
               IN  /\ Cardinality(RecordsOf(SubKinds, n)) = 1
                   /\ Cardinality(RecordsOf({kind}, n)) = 1

\* a name on both sides, one only on the left: both kinds of record yielded
OneRecordWitness ==
    /\ dState = "collected"
    /\ \E i, j \in 1..Len(dChanges) :
           /\ dChanges[i].kind = "ManifestSectionChange"
           /\ dChanges[j].kind = "ManifestSectionRemoved"

\* the keys under which the two sides differ: in the value, or in having it
DifferingKeys(l, r) ==
    {k \in {l[i][1] : i \in 1..Len(l)} \cup {r[i][1] : i \in 1..Len(r)} :
        Get(l, k) # Get(r, k)}

SubsFlag == "ignore_manifest_subsections" \in DOMAIN dOpts /\ dOpts.ignore_manifest_subsections

IgnoreKeys ==
    IF "ignore_manifest_key" \in DOMAIN dOpts THEN dOpts.ignore_manifest_key ELSE {}

\* C7: a main-changed record, and a sub-changed record when the
\* ignore-all-sub-sections flag is not set, is ignored iff the set of
\* ignore-changed-keys is not empty and holds every key of the symmetric
\* difference of the two sides; every sub-section record is ignored
\* whenever the flag is set.
IgnorePredicate ==
    dState = "judged" =>
        \A i \in 1..Len(dChanges) :
            LET c == dChanges[i]
            IN  /\ (c.kind = "ManifestMainChange"
                        \/ (c.kind = "ManifestSectionChange" /\ ~SubsFlag)) =>
                       (dIgnored[i] <=>
                            (IgnoreKeys # {}
                               /\ DifferingKeys(c.ldata, c.rdata) \subseteq IgnoreKeys))
                /\ (c.kind \in SubKinds /\ SubsFlag) => dIgnored[i]

\* with the keys {A} to ignore and the flag not set, a sub-changed record
\* and the main record, both differing in A alone, were ignored
IgnoreWitness ==
    /\ dState = "judged"
    /\ ~SubsFlag
    /\ IgnoreKeys = {KeyA}
    /\ \E i \in 1..Len(dChanges) :
           /\ dChanges[i].kind = "ManifestSectionChange"
           /\ DifferingKeys(dChanges[i].ldata, dChanges[i].rdata) = {KeyA}
           /\ dIgnored[i]
    /\ dChanges[1].kind = "ManifestMainChange"
    /\ DifferingKeys(dChanges[1].ldata, dChanges[1].rdata) = {KeyA}
    /\ dIgnored[1]

=============================================================================
